---- MODULE Spec2Model ----
(***************************************************************************)
(* auth-service: user registration.                                        *)
(*                                                                         *)
(* Strings of the program are modelled as sequences of tokens: an email    *)
(* is a sequence of one-character strings, an error message a sequence of  *)
(* words.  Five specifications share  the module:                          *)
(*   Spec        the registration workflow (controller, service, ports,    *)
(*               store, global filter) under concurrent requests;          *)
(*   SpecEmail   the Email value object applied to arbitrary strings;      *)
(*   SpecFilter  the global exception filter applied to arbitrary errors;  *)
(*   SpecDomain  the operations of UserId, Entity, User and the            *)
(*               persistence mapper applied to arbitrary arguments;        *)
(*   SpecRepo    UserRepository.save called repeatedly on one store.       *)
(***************************************************************************)
EXTENDS Integers, Sequences, FiniteSets, TLC

VARIABLES
    \* ---- registration workflow
    pc,          \* per request: position of its asynchronous task
    dto,         \* per request: the RegisterUserDto it carries
    email,       \* per request: the Email value object built from dto.email
    calls,       \* per request: the port calls made so far, in order
    hashed,      \* per request: what passwordHasher.hash returned
    user,        \* per request: the User built by User.create
    result,      \* per request: how the promise of register settled
    response,    \* per request: the HTTP response sent
    store,       \* the user table: a set of rows
    uniqueEmail, \* whether the table has a unique index on email
    overlapped,  \* history: some request started while another was in flight
    generated,   \* number of hashes made, each followed by one generated id
    clock,       \* logical time read by new Date()
    \* ---- Email value object
    emailIn,     \* the string given to the constructor
    emailOut,    \* the outcome of the construction
    \* ---- exception filter
    caught,      \* the error handed to the filter
    sent,        \* the response the filter emitted
    \* ---- domain operations
    domIn,       \* the operation called and its arguments
    domOut,      \* what the call returned or threw
    \* ---- repository used on its own
    saves        \* history: the save calls made, each with the store around it

regVars == <<pc, dto, email, calls, hashed, user, result, response, store,
             uniqueEmail, overlapped, generated, clock>>
emailVars == <<emailIn, emailOut>>
filterVars == <<caught, sent>>
domainVars == <<domIn, domOut>>
repoVars == <<saves>>
vars == <<regVars, emailVars, filterVars, domainVars, repoVars>>

-----------------------------------------------------------------------------
(* Bounds *)

NumRequests == 2

MaxLen == 6

MaxParts == 2

\* longest id string tried
MaxIdLen == 3

\* number of save calls made on the repository alone
MaxSaves == 3

-----------------------------------------------------------------------------
(* Strings *)

Null == <<"<null>">>

Pending == [pending |-> TRUE]

RECURSIVE SeqsUpTo(_, _)
SeqsUpTo(S, n) ==
    IF n = 0 THEN {<<>>}
    ELSE LET shorter == SeqsUpTo(S, n - 1)
         IN  shorter \cup {Append(s, c) : s \in {t \in shorter : Len(t) = n - 1}, c \in S}

\* String.prototype.includes: pattern occurs as a contiguous run of msg
Includes(msg, pattern) ==
    \E i \in 0..(Len(msg) - Len(pattern)) :
        \A k \in 1..Len(pattern) : msg[i + k] = pattern[k]

-----------------------------------------------------------------------------
(* Email value object *)

Whitespace == {" ", "\n", "\t"}

\* the character class [^\s@]
NotSpaceNorAt(c) == c \notin Whitespace /\ c # "@"

\* One step of the automaton of /^[^\s@]+@[^\s@]+\.[^\s@]+$/ from state q on c.
\* 0: start, 1: in local part, 2: after '@', 3: in domain part,
\* 4: after the literal '.', 5: in last part (accepting)
RegexStep(q, c) ==
    CASE q = 0 -> IF NotSpaceNorAt(c) THEN {1} ELSE {}
      [] q = 1 -> IF NotSpaceNorAt(c) THEN {1} ELSE IF c = "@" THEN {2} ELSE {}
      [] q = 2 -> IF NotSpaceNorAt(c) THEN {3} ELSE {}
      [] q = 3 -> IF NotSpaceNorAt(c)
                  THEN (IF c = "." THEN {3, 4} ELSE {3})
                  ELSE {}
      [] q = 4 -> IF NotSpaceNorAt(c) THEN {5} ELSE {}
      [] q = 5 -> IF NotSpaceNorAt(c) THEN {5} ELSE {}
      [] OTHER -> {}

RECURSIVE RegexRun(_, _, _)
RegexRun(s, i, Q) ==
    IF i > Len(s) THEN Q
    ELSE RegexRun(s, i + 1, UNION {RegexStep(q, s[i]) : q \in Q})

\* the same pattern without its ^ and $ anchors: matches anywhere in s
emailRegexUnanchored(s) ==
    \E i \in 1..Len(s) : \E j \in i..Len(s) :
        5 \in RegexRun(SubSeq(s, i, j), 1, {0})

\* emailRegex.test(email)
emailRegexTest(s) == 5 \in RegexRun(s, 1, {0})

InvalidEmailFormat == <<"Invalid", "email", "format">>

PlainError(message) ==
    [class |-> "Error", message |-> message, http |-> FALSE, status |-> 0,
     payload |-> [kind |-> "none"]]

\* an Email constructor that does not validate
NewEmailUnchecked(s) == [ok |-> TRUE, value |-> [email |-> s]]

\* new Email(s): validate, then keep the string
NewEmail(s) ==
    IF ~emailRegexTest(s)
    THEN [ok |-> FALSE, error |-> PlainError(InvalidEmailFormat)]
    ELSE [ok |-> TRUE, value |-> [email |-> s]]

EmailGet(e) == e.email

EmailAlphabet == {"a", "@", ".", " ", "\n"}

EmailStrings == SeqsUpTo(EmailAlphabet, MaxLen)

-----------------------------------------------------------------------------
(* Errors and the global exception filter *)

UserAlreadyExists == <<"User", "already", "exists">>

UserIdMustBe == <<"UserId", "must", "be">>

EntityIdNotSet == <<"Entity", "ID", "is", "not", "set">>

IdCannotBeNull == <<"ID", "cannot", "be", "null", "or", "undefined">>

INTERNAL_SERVER_ERROR == 500

BAD_REQUEST == 400

CONFLICT == 409

CREATED == 201

\* a framework HttpException: getStatus() is status, getResponse() is payload
HttpError(class, status, message, payload) ==
    [class |-> class, message |-> message, http |-> TRUE, status |-> status,
     payload |-> payload]

\* new ConflictException('User already exists')
ConflictException(message) ==
    HttpError("ConflictException", CONFLICT, message,
              [kind |-> "object", message |-> message])

\* the substring tests with the first two in the other order
StatusByFirstOfConflictThenEmail(message) ==
    IF Includes(message, UserAlreadyExists) THEN CONFLICT
    ELSE IF Includes(message, InvalidEmailFormat) THEN BAD_REQUEST
    ELSE IF Includes(message, UserIdMustBe) THEN BAD_REQUEST
    ELSE INTERNAL_SERVER_ERROR

\* status by the first matching substring, in the fixed order of the code
StatusByMessage(message) ==
    IF Includes(message, InvalidEmailFormat) THEN BAD_REQUEST
    ELSE IF Includes(message, UserAlreadyExists) THEN CONFLICT
    ELSE IF Includes(message, UserIdMustBe) THEN BAD_REQUEST
    ELSE INTERNAL_SERVER_ERROR

\* exception instanceof BadRequestException
IsBadRequest(exception) == exception.class = "BadRequestException"

\* String(v) for a string or a list of strings: a list is joined with ","
RECURSIVE JoinComma(_)
JoinComma(items) ==
    IF Len(items) = 0 THEN <<>>
    ELSE IF Len(items) = 1 THEN items[1]
    ELSE items[1] \o <<",">> \o JoinComma(Tail(items))

\* a filter that never looks at the class of the error
FilterStatusByMessageOnly(exception) == StatusByMessage(exception.message)

\* status: by message, then overridden by a BadRequestException's own status
FilterStatus(exception) ==
    IF IsBadRequest(exception) THEN exception.status
    ELSE StatusByMessage(exception.message)

\* message = (exceptionResponse as any).message, with no String(...): a list
\* stays a list and a missing field leaves no message at all
FilterMessageUncoerced(exception) ==
    IF ~IsBadRequest(exception) THEN exception.message
    ELSE CASE exception.payload.kind = "string" -> exception.payload.value
           [] exception.payload.kind = "object" -> exception.payload.message
           [] exception.payload.kind = "list" -> exception.payload.items
           [] OTHER -> <<>>

\* message: the error's own, overridden from a BadRequestException's payload
FilterMessage(exception) ==
    IF ~IsBadRequest(exception) THEN exception.message
    ELSE CASE exception.payload.kind = "string" -> exception.payload.value
           [] exception.payload.kind = "object" -> exception.payload.message
           [] exception.payload.kind = "list" -> JoinComma(exception.payload.items)
           [] OTHER -> exception.message

\* a filter that returns without sending anything
FilterSendsNothing(exception, now) == [pending |-> TRUE]

\* DomainExceptionFilter.catch: response.status(status).json({...})
DomainExceptionFilter(exception, now) ==
    [status |-> FilterStatus(exception),
     body |-> [statusCode |-> FilterStatus(exception),
               message |-> FilterMessage(exception),
               timestamp |-> now]]

Phrases ==
    {InvalidEmailFormat, UserAlreadyExists, UserIdMustBe, EntityIdNotSet,
     IdCannotBeNull, <<"Not", "Found">>, <<"Invalid", "email">>, <<"format">>}

RECURSIVE Concats(_)
Concats(n) ==
    IF n = 0 THEN {<<>>}
    ELSE LET shorter == Concats(n - 1)
         IN  shorter \cup {m \o p : m \in shorter, p \in Phrases}

Messages == Concats(MaxParts)

PayloadTexts == {<<"Bad", "Request">>, UserAlreadyExists}

Payloads ==
    {[kind |-> "string", value |-> t] : t \in PayloadTexts}
    \cup {[kind |-> "object", message |-> t] : t \in PayloadTexts}
    \cup {[kind |-> "list", items |-> <<t, <<"x">>>>] : t \in PayloadTexts}
    \cup {[kind |-> "bare"]}

HttpClasses ==
    {<<"BadRequestException", 400>>, <<"ConflictException", 409>>,
     <<"NotFoundException", 404>>, <<"UnauthorizedException", 401>>}

Exceptions ==
    {PlainError(m) : m \in Messages}
    \cup {HttpError(c[1], c[2], m, p) : c \in HttpClasses, m \in Messages, p \in Payloads}

-----------------------------------------------------------------------------
(* Domain: UserId, User, mappers *)

RECURSIVE Repeat(_, _)
Repeat(c, n) == IF n = 0 THEN <<>> ELSE <<c>> \o Repeat(c, n - 1)

\* randomUUID(): the n-th call returns a string no earlier call returned
randomUUID(n) == <<"uuid">> \o Repeat("x", n)

\* value.trim().length === 0
IsBlank(value) == \A i \in 1..Len(value) : value[i] \in Whitespace

\* JavaScript values an id may be made from
JsNull == [type |-> "null"]

JsUndefined == [type |-> "undefined"]

JsNumber == [type |-> "number"]

JsString(s) == [type |-> "string", str |-> s]

Ok(v) == [ok |-> TRUE, value |-> v]

Throw(message) == [ok |-> FALSE, error |-> PlainError(message)]

UserIdMustBeNonEmpty == UserIdMustBe \o <<"a", "non-empty", "string">>

\* EntityId.validate
EntityIdValidate(v) == v.type \in {"null", "undefined"}

\* a validation that tests string-ness before absence
UserIdCreateStringFirst(v) ==
    IF v.type # "string" THEN Throw(UserIdMustBeNonEmpty)
    ELSE IF IsBlank(v.str) THEN Throw(UserIdMustBeNonEmpty)
    ELSE Ok([value |-> v.str])

\* UserId.create(value): new UserId(value) runs UserId.validate, which runs
\* EntityId.validate first, and then keeps the value as given
UserIdCreate(v) ==
    IF EntityIdValidate(v) THEN Throw(IdCannotBeNull)
    ELSE IF v.type # "string" THEN Throw(UserIdMustBeNonEmpty)
    ELSE IF IsBlank(v.str) THEN Throw(UserIdMustBeNonEmpty)
    ELSE Ok([value |-> v.str])

\* a generator that hands out one id again and again
UserIdGenerateSame(n) == [value |-> randomUUID(0)]

\* UserId.generate()
UserIdGenerate(n) == [value |-> randomUUID(n)]

\* an entity whose id was never assigned
NoId == [none |-> TRUE]

\* EntityId.equals(other)
EntityIdEquals(a, b) == IF b = NoId THEN FALSE ELSE a.value = b.value

\* an isNew that holds until the object comes from the store
EntityIsNewUntilLoaded(e) == e.id = NoId \/ e.instance = "created"

\* Entity.isNew
EntityIsNew(e) == e.id = NoId

\* Entity.getId with no check of the id
EntityGetIdUnchecked(e) == Ok(e.id)

\* Entity.getId
EntityGetId(e) == IF e.id = NoId THEN Throw(EntityIdNotSet) ELSE Ok(e.id)

\* Entity.equals comparing ids only
EntityEqualsIgnoringClass(this, other) ==
    IF other = JsNull \/ this.id = NoId THEN Ok(FALSE)
    ELSE LET otherId == EntityGetId(other) IN
         IF ~otherId.ok THEN otherId
         ELSE Ok(EntityIdEquals(this.id, otherId.value))

\* Entity.equals(other): other.getId() throws when the other id is absent
EntityEquals(this, other) ==
    IF other = JsNull \/ this.id = NoId THEN Ok(FALSE)
    ELSE IF this.class # other.class THEN Ok(FALSE)
    ELSE LET otherId == EntityGetId(other) IN
         IF ~otherId.ok THEN otherId
         ELSE Ok(EntityIdEquals(this.id, otherId.value))

ACTIVE == "ACTIVE"

\* new User(id, ...): a new object with its class and its fields; instance
\* tells the objects of the two factories apart (each call makes a new object)
NewUser(instance, id, firstName, lastName, emailVO, passwordHash, status, createdAt, updatedAt) ==
    [class |-> "User", instance |-> instance, id |-> id,
     firstName |-> firstName, lastName |-> lastName, email |-> emailVO,
     passwordHash |-> passwordHash, status |-> status,
     createdAt |-> createdAt, updatedAt |-> updatedAt]

\* User.create with both timestamps read from two separate clock readings
UserCreateTwoClockReads(firstName, lastName, emailVO, passwordHash, n, now) ==
    NewUser("created", UserIdGenerate(n), firstName, lastName, emailVO, passwordHash,
            ACTIVE, now, now + 1)

\* User.create: n is the number of ids generated before, now is new Date()
UserCreate(firstName, lastName, emailVO, passwordHash, n, now) ==
    NewUser("created", UserIdGenerate(n), firstName, lastName, emailVO, passwordHash,
            ACTIVE, now, now)

\* User.reconstitute: UserId.create(id) may throw
UserReconstitute(id, firstName, lastName, emailVO, passwordHash, status, createdAt, updatedAt) ==
    LET userId == UserIdCreate(id) IN
    IF ~userId.ok THEN userId
    ELSE Ok(NewUser("reconstituted", userId.value, firstName, lastName, emailVO, passwordHash,
                    status, createdAt, updatedAt))

\* a persistence mapper that writes the first name into both name columns
toPersistenceOneName(u) ==
    [id |-> u.id.value, email |-> EmailGet(u.email), password |-> u.passwordHash,
     firstName |-> u.firstName, lastName |-> u.firstName, status |-> u.status,
     createdAt |-> u.createdAt, updatedAt |-> u.updatedAt]

\* PrismaUserMapper.toPersistence
toPersistence(u) ==
    [id |-> u.id.value, email |-> EmailGet(u.email), password |-> u.passwordHash,
     firstName |-> u.firstName, lastName |-> u.lastName, status |-> u.status,
     createdAt |-> u.createdAt, updatedAt |-> u.updatedAt]

\* PrismaUserMapper.toDomain: new Email(row.email) is evaluated before
\* User.reconstitute is entered; either may throw
toDomain(row) ==
    LET e == NewEmail(row.email) IN
    IF ~e.ok THEN e
    ELSE UserReconstitute(JsString(row.id), row.firstName, row.lastName,
                          e.value, row.password, row.status,
                          row.createdAt, row.updatedAt)

\* a response mapper that copies the whole entity
toResponseDtoWithHash(u) ==
    [id |-> u.id.value, email |-> EmailGet(u.email), firstName |-> u.firstName,
     lastName |-> u.lastName, passwordHash |-> u.passwordHash,
     status |-> u.status, createdAt |-> u.createdAt, updatedAt |-> u.updatedAt]

\* UserMapper.toResponseDto
toResponseDto(u) ==
    [id |-> u.id.value, email |-> EmailGet(u.email), firstName |-> u.firstName,
     lastName |-> u.lastName, status |-> u.status, createdAt |-> u.createdAt,
     updatedAt |-> u.updatedAt]

-----------------------------------------------------------------------------
(* Ports: password hasher and user repository *)

\* bcrypt.hash(password, SALT_ROUNDS) with the salt it drew: the result starts
\* with the bcrypt prefix and is never the password itself
BcryptHash(password, salt) == <<"$2b$10$">> \o salt \o <<"$">> \o password

\* bcrypt.genSalt: the n-th hash gets a salt that no earlier hash got
genSalt(n) == <<"salt">> \o Repeat("+", n)

NoUser == [none |-> TRUE]

\* a lookup that compares emails without regard to letter case
findByEmailIgnoringCase(st, emailVO) ==
    LET lower(s) == [i \in 1..Len(s) |-> IF s[i] = "A" THEN "a" ELSE s[i]]
        found == {row \in st : lower(row.email) = lower(EmailGet(emailVO))}
    IN  IF found # {} THEN toDomain(CHOOSE row \in found : TRUE).value ELSE NoUser

\* prisma.user.findUnique({ where: { email } }) mapped to the domain
findByEmail(st, emailVO) ==
    IF \E row \in st : row.email = EmailGet(emailVO)
    THEN toDomain(CHOOSE row \in st : row.email = EmailGet(emailVO)).value
    ELSE NoUser

\* an upsert that looks the row up by its email column
UpsertTargetByEmail(st, data) == {row \in st : row.email = data.email}

\* where: { id: data.id }: the rows the upsert updates rather than creates
UpsertTarget(st, data) == {row \in st : row.id = data.id}

\* a save that resolves without having written the row
UpsertNotWritten(st, data) == st

\* prisma.user.upsert({ where, update: data, create: data })
Upsert(st, data) == (st \ UpsertTarget(st, data)) \cup {data}

\* the write would leave two rows with one email
ViolatesUniqueEmail(st, data) ==
    \E row \in st \ UpsertTarget(st, data) : row.email = data.email

UniqueConstraintFailed == <<"Unique", "constraint", "failed", "on", "email">>

ConnectionLost == <<"connection", "lost">>

-----------------------------------------------------------------------------
(* Registration workflow: controller -> service -> ports -> response *)

Requests == 1..NumRequests

GoodEmail == <<"a", "@", "b", ".", "c">>

UpperEmail == <<"A", "@", "b", ".", "c">>

BadEmail == <<"a", "b">>

\* new RegisterUserDto(email, firstName, lastName, password)
RegisterUserDto(e, firstName, lastName, password) ==
    [email |-> e, firstName |-> firstName, lastName |-> lastName,
     password |-> password]

Dtos ==
    {RegisterUserDto(GoodEmail, <<"John">>, <<"Doe">>, <<"pw1">>),
     RegisterUserDto(GoodEmail, Null, <<"Roe">>, <<"pw2">>),
     RegisterUserDto(UpperEmail, <<"Jane">>, Null, <<"pw1">>),
     RegisterUserDto(BadEmail, Null, Null, <<"pw1">>)}

InFlight(r) == pc[r] \in {"findByEmail", "hash", "save"}

\* a port call that has been made and has not completed yet
Call(port, arg) ==
    [port |-> port, arg |-> arg, outcome |-> "pending", value |-> Pending]

Last(r) == calls[r][Len(calls[r])]

\* the pending call of r completes with a value / fails
Returned(r, value) ==
    [calls[r] EXCEPT ![Len(calls[r])] =
        [@ EXCEPT !.outcome = "returned", !.value = value]]

\* the pending call of r fails with the error the port threw
Failed(r, error) ==
    [calls[r] EXCEPT ![Len(calls[r])] =
        [@ EXCEPT !.outcome = "failed", !.value = error]]

\* a register that answers every failed await with a conflict
AwaitRejectedAsConflict(error) == ConflictException(UserAlreadyExists)

\* await port(...): register has no try/catch, the rejection is rethrown as is
AwaitRejected(error) == error

\* if (existingUser) is taken for no user at all
ThrowsConflictNever(existingUser) == FALSE

\* if (existingUser) throw new ConflictException('User already exists')
ThrowsConflict(existingUser) == existingUser # NoUser

\* hashing something else than the password
HashInputEmail(d) == d.email

\* the argument of this.passwordHasher.hash
HashInput(d) == d.password

\* building the user with the plaintext where the hash belongs
RegisterCreateUserPlain(d, emailVO, hashedPassword, n, now) ==
    UserCreate(d.firstName, d.lastName, emailVO, d.password, n, now)

\* User.create(dto.firstName, dto.lastName, email, hashedPassword)
RegisterCreateUser(d, emailVO, hashedPassword, n, now) ==
    UserCreate(d.firstName, d.lastName, emailVO, hashedPassword, n, now)

\* a register that returns what save returned
RegisterReturnSaved(u, saved) == saved

\* return user: the entity built before the save, not what save returned
RegisterReturn(u, saved) == u

\* the rejection of the promise reaches the filter, which answers
Reject(r, exception) ==
    /\ pc' = [pc EXCEPT ![r] = "responded"]
    /\ result' = [result EXCEPT ![r] = [ok |-> FALSE, error |-> exception]]
    /\ response' = [response EXCEPT ![r] = DomainExceptionFilter(exception, clock)]

\* the controller maps the user and answers 201
Resolve(r, u) ==
    /\ pc' = [pc EXCEPT ![r] = "responded"]
    /\ result' = [result EXCEPT ![r] = [ok |-> TRUE, value |-> u]]
    /\ response' = [response EXCEPT ![r] =
                       [status |-> CREATED, body |-> toResponseDto(u)]]

\* POST /users arrives: register runs up to its first await
Request(r) ==
    /\ pc[r] = "idle"
    /\ \A o \in Requests : o < r => pc[o] # "idle"
    /\ \E d \in Dtos :
         LET e == NewEmail(d.email) IN
         /\ dto' = [dto EXCEPT ![r] = d]
         /\ IF e.ok
            THEN /\ email' = [email EXCEPT ![r] = e.value]
                 /\ calls' = [calls EXCEPT ![r] = <<Call("findByEmail", e.value)>>]
                 /\ pc' = [pc EXCEPT ![r] = "findByEmail"]
                 /\ UNCHANGED <<result, response>>
            ELSE /\ Reject(r, e.error)
                 /\ UNCHANGED <<email, calls>>
    /\ overlapped' = (overlapped \/ \E o \in Requests : InFlight(o))
    /\ UNCHANGED <<hashed, user, store, uniqueEmail, generated, clock>>
    /\ UNCHANGED <<emailVars, filterVars, domainVars, repoVars>>

\* the lookup completes: conflict, or go on to hash
FindByEmailReturns(r) ==
    /\ pc[r] = "findByEmail"
    /\ LET existingUser == findByEmail(store, Last(r).arg) IN
       IF ThrowsConflict(existingUser)
       THEN /\ Reject(r, ConflictException(UserAlreadyExists))
            /\ calls' = [calls EXCEPT ![r] = Returned(r, existingUser)]
       ELSE /\ pc' = [pc EXCEPT ![r] = "hash"]
            /\ calls' = [calls EXCEPT ![r] =
                            Append(Returned(r, existingUser),
                                   Call("hash", HashInput(dto[r])))]
            /\ UNCHANGED <<result, response>>
    /\ UNCHANGED <<dto, email, hashed, user, store, uniqueEmail, overlapped,
                   generated, clock>>
    /\ UNCHANGED <<emailVars, filterVars, domainVars, repoVars>>

\* the hash completes: build the user and start the save
HashReturns(r) ==
    /\ pc[r] = "hash"
    /\ LET hashedPassword == BcryptHash(Last(r).arg, genSalt(generated))
           u == RegisterCreateUser(dto[r], email[r], hashedPassword,
                                   generated, clock)
       IN  /\ hashed' = [hashed EXCEPT ![r] = hashedPassword]
           /\ user' = [user EXCEPT ![r] = u]
           /\ calls' = [calls EXCEPT ![r] =
                           Append(Returned(r, hashedPassword), Call("save", u))]
    /\ pc' = [pc EXCEPT ![r] = "save"]
    /\ generated' = generated + 1
    /\ clock' = clock + 1
    /\ UNCHANGED <<dto, email, result, response, store, uniqueEmail, overlapped>>
    /\ UNCHANGED <<emailVars, filterVars, domainVars, repoVars>>

\* the upsert completes: register returns and the controller answers
SaveReturns(r) ==
    /\ pc[r] = "save"
    /\ LET data == toPersistence(Last(r).arg) IN
       /\ ~(uniqueEmail /\ ViolatesUniqueEmail(store, data))
       /\ store' = Upsert(store, data)
       /\ calls' = [calls EXCEPT ![r] = Returned(r, toDomain(data).value)]
       /\ Resolve(r, RegisterReturn(user[r], toDomain(data).value))
    /\ UNCHANGED <<dto, email, hashed, user, uniqueEmail, overlapped,
                   generated, clock>>
    /\ UNCHANGED <<emailVars, filterVars, domainVars, repoVars>>

\* the store rejects the write for its unique index on email
SaveRejected(r) ==
    /\ pc[r] = "save"
    /\ uniqueEmail /\ ViolatesUniqueEmail(store, toPersistence(Last(r).arg))
    /\ calls' = [calls EXCEPT ![r] = Failed(r, PlainError(UniqueConstraintFailed))]
    /\ Reject(r, AwaitRejected(PlainError(UniqueConstraintFailed)))
    /\ UNCHANGED <<dto, email, hashed, user, store, uniqueEmail,
                   overlapped, generated, clock>>
    /\ UNCHANGED <<emailVars, filterVars, domainVars, repoVars>>

\* a port call fails for a reason of its own (the database or bcrypt)
PortFails(r) ==
    /\ InFlight(r)
    /\ calls' = [calls EXCEPT ![r] = Failed(r, PlainError(ConnectionLost))]
    /\ Reject(r, AwaitRejected(PlainError(ConnectionLost)))
    /\ UNCHANGED <<dto, email, hashed, user, store, uniqueEmail,
                   overlapped, generated, clock>>
    /\ UNCHANGED <<emailVars, filterVars, domainVars, repoVars>>

NoDto == [none |-> TRUE]

NoEmail == [none |-> TRUE]

InitReg ==
    /\ pc = [r \in Requests |-> "idle"]
    /\ dto = [r \in Requests |-> NoDto]
    /\ email = [r \in Requests |-> NoEmail]
    /\ calls = [r \in Requests |-> <<>>]
    /\ hashed = [r \in Requests |-> <<>>]
    /\ user = [r \in Requests |-> NoUser]
    /\ result = [r \in Requests |-> Pending]
    /\ response = [r \in Requests |-> Pending]
    /\ store = {}
    /\ overlapped = FALSE
    /\ generated = 0
    /\ clock = 0

InitEmailIdle == emailIn = <<>> /\ emailOut = Pending

InitFilterIdle == caught = PlainError(<<>>) /\ sent = Pending

NoCall == [op |-> "none"]

InitDomainIdle == domIn = NoCall /\ domOut = Pending

InitRepoIdle == saves = <<>>

Init ==
    /\ InitReg /\ uniqueEmail \in BOOLEAN
    /\ InitEmailIdle /\ InitFilterIdle /\ InitDomainIdle /\ InitRepoIdle

Next ==
    \E r \in Requests :
        \/ Request(r)
        \/ FindByEmailReturns(r)
        \/ HashReturns(r)
        \/ SaveReturns(r)
        \/ SaveRejected(r)
        \/ PortFails(r)

Spec == Init /\ [][Next]_vars

\* the pending port call of r completes or fails
Completes(r) ==
    \/ FindByEmailReturns(r)
    \/ HashReturns(r)
    \/ SaveReturns(r)
    \/ SaveRejected(r)
    \/ PortFails(r)

\* every port call eventually completes or fails; requests need not arrive
PortsAnswer == \A r \in Requests : WF_vars(Completes(r))

SpecLive == Init /\ [][Next]_vars /\ PortsAnswer

-----------------------------------------------------------------------------
(* The Email constructor applied to a string *)

EmailConstruct ==
    /\ emailOut = Pending
    /\ emailOut' = NewEmail(emailIn)
    /\ UNCHANGED <<emailIn, regVars, filterVars, domainVars, repoVars>>

InitEmail ==
    /\ InitReg /\ uniqueEmail = FALSE
    /\ InitFilterIdle /\ InitDomainIdle /\ InitRepoIdle
    /\ emailIn \in EmailStrings
    /\ emailOut = Pending

SpecEmail == InitEmail /\ [][EmailConstruct]_vars

-----------------------------------------------------------------------------
(* The filter applied to an error *)

FilterCatch ==
    /\ sent = Pending
    /\ sent' = DomainExceptionFilter(caught, clock)
    /\ UNCHANGED <<caught, regVars, emailVars, domainVars, repoVars>>

InitFilter ==
    /\ InitReg /\ uniqueEmail = FALSE
    /\ InitEmailIdle /\ InitDomainIdle /\ InitRepoIdle
    /\ caught \in Exceptions
    /\ sent = Pending

SpecFilter == InitFilter /\ [][FilterCatch]_vars

-----------------------------------------------------------------------------
(* The domain operations applied to arguments *)

IdAlphabet == {"a", " "}

IdStrings == SeqsUpTo(IdAlphabet, MaxIdLen)

\* what a caller may pass as an id
IdValues == {JsNull, JsUndefined, JsNumber} \cup {JsString(s) : s \in IdStrings}

ValidIds == {UserIdCreate(v).value : v \in {w \in IdValues : UserIdCreate(w).ok}}

\* the entity classes of entity.spec.ts, with and without an id
TestEntity(class, id, name) == [class |-> class, id |-> id, name |-> name]

Entities ==
    {TestEntity(class, id, name) :
        class \in {"TestEntity", "AnotherTestEntity"},
        id \in ValidIds \cup {NoId},
        name \in {"Test", "Different"}}

Names == {Null, <<"John">>}

Statuses == {ACTIVE, "OTHER"}

Dates == {1, 2}

Hash1 == BcryptHash(<<"pw1">>, genSalt(0))

\* the arguments of User.reconstitute other than the id
FieldArgs ==
    [firstName : Names, lastName : Names, email : {GoodEmail, UpperEmail},
     passwordHash : {Hash1}, status : Statuses,
     createdAt : Dates, updatedAt : Dates]

Reconstituted(id, f) ==
    UserReconstitute(id, f.firstName, f.lastName, NewEmail(f.email).value,
                     f.passwordHash, f.status, f.createdAt, f.updatedAt)

UserIdCreateCall ==
    /\ domIn.op = "UserId.create" /\ domOut = Pending
    /\ domOut' = UserIdCreate(domIn.value)
    /\ UNCHANGED <<domIn, regVars, emailVars, filterVars, repoVars>>

UserReconstituteCall ==
    /\ domIn.op = "User.reconstitute" /\ domOut = Pending
    /\ domOut' = Reconstituted(domIn.id, domIn.fields)
    /\ UNCHANGED <<domIn, regVars, emailVars, filterVars, repoVars>>

EqualsCall ==
    /\ domIn.op = "equals" /\ domOut = Pending
    /\ domOut' = EntityEquals(domIn.this, domIn.other)
    /\ UNCHANGED <<domIn, regVars, emailVars, filterVars, repoVars>>

IsNewCall ==
    /\ domIn.op = "isNew" /\ domOut = Pending
    /\ domOut' = Ok(EntityIsNew(domIn.this))
    /\ UNCHANGED <<domIn, regVars, emailVars, filterVars, repoVars>>

GetIdCall ==
    /\ domIn.op = "getId" /\ domOut = Pending
    /\ domOut' = EntityGetId(domIn.this)
    /\ UNCHANGED <<domIn, regVars, emailVars, filterVars, repoVars>>

\* save then load: the row of a user is mapped back to a user
ToPersistenceThenToDomainCall ==
    /\ domIn.op = "toDomain(toPersistence)" /\ domOut = Pending
    /\ domOut' = toDomain(toPersistence(domIn.user))
    /\ UNCHANGED <<domIn, regVars, emailVars, filterVars, repoVars>>

\* load then save: the user of a row is mapped back to a row
ToDomainThenToPersistenceCall ==
    /\ domIn.op = "toPersistence(toDomain)" /\ domOut = Pending
    /\ domOut' = LET loaded == toDomain(domIn.row) IN
                 IF loaded.ok THEN Ok(toPersistence(loaded.value)) ELSE loaded
    /\ UNCHANGED <<domIn, regVars, emailVars, filterVars, repoVars>>

\* the valid users: reconstituted from an accepted id, or freshly created
ValidUsers ==
    {Reconstituted(JsString(id.value), f).value : id \in ValidIds, f \in FieldArgs}
    \cup {UserCreate(f.firstName, f.lastName, NewEmail(f.email).value,
                     f.passwordHash, 0, f.createdAt) : f \in FieldArgs}

\* rows a table may hold, whatever wrote them
Rows ==
    [id : IdStrings, email : {GoodEmail, UpperEmail, BadEmail},
     password : {Hash1}, firstName : Names, lastName : Names,
     status : Statuses, createdAt : Dates, updatedAt : Dates]

DomainCalls ==
    {[op |-> "UserId.create", value |-> v] : v \in IdValues}
    \cup {[op |-> "User.reconstitute", id |-> v, fields |-> f] :
             v \in IdValues, f \in FieldArgs}
    \cup {[op |-> "equals", this |-> a, other |-> b] :
             a \in Entities, b \in Entities \cup {JsNull}}
    \cup {[op |-> o, this |-> a] : o \in {"isNew", "getId"}, a \in Entities}
    \cup {[op |-> "toDomain(toPersistence)", user |-> u] : u \in ValidUsers}
    \cup {[op |-> "toPersistence(toDomain)", row |-> r] : r \in Rows}

InitDomain ==
    /\ InitReg /\ uniqueEmail = FALSE
    /\ InitEmailIdle /\ InitFilterIdle /\ InitRepoIdle
    /\ domIn \in DomainCalls
    /\ domOut = Pending

NextDomain ==
    \/ UserIdCreateCall
    \/ UserReconstituteCall
    \/ EqualsCall
    \/ IsNewCall
    \/ GetIdCall
    \/ ToPersistenceThenToDomainCall
    \/ ToDomainThenToPersistenceCall

SpecDomain == InitDomain /\ [][NextDomain]_vars

-----------------------------------------------------------------------------
(* UserRepository.save called on its own *)

\* users handed to save: two ids, two emails, with and without a first name
RepoUsers ==
    {Reconstituted(JsString(id), f).value :
        id \in {<<"u1">>, <<"u2">>},
        f \in {g \in FieldArgs : /\ g.lastName = Null /\ g.status = ACTIVE
                                  /\ g.createdAt = 1 /\ g.updatedAt = 1}}

Saved(u, before, outcome, after) ==
    [user |-> u, before |-> before, outcome |-> outcome, after |-> after]

\* UserRepository.save(u)
RepoSave(u) ==
    /\ Len(saves) < MaxSaves
    /\ LET data == toPersistence(u) IN
       IF uniqueEmail /\ ViolatesUniqueEmail(store, data)
       THEN /\ store' = store
            /\ saves' = Append(saves, Saved(u, store,
                                Throw(UniqueConstraintFailed), store))
       ELSE /\ store' = Upsert(store, data)
            /\ saves' = Append(saves, Saved(u, store,
                                toDomain(data), Upsert(store, data)))
    /\ UNCHANGED <<pc, dto, email, calls, hashed, user, result, response,
                   uniqueEmail, overlapped, generated, clock>>
    /\ UNCHANGED <<emailVars, filterVars, domainVars>>

InitRepo ==
    /\ InitReg /\ uniqueEmail \in BOOLEAN
    /\ InitEmailIdle /\ InitFilterIdle /\ InitDomainIdle /\ InitRepoIdle

NextRepo == \E u \in RepoUsers : RepoSave(u)

SpecRepo == InitRepo /\ [][NextRepo]_vars

-----------------------------------------------------------------------------
(* Vocabulary of the properties *)

Responded(r) == pc[r] = "responded"

\* pattern is a contiguous part of message
Has(message, pattern) ==
    \E i \in 1..(Len(message) - Len(pattern) + 1) :
        SubSeq(message, i, i + Len(pattern) - 1) = pattern

Succeeded(r) == Responded(r) /\ result[r].ok

ConflictResult == [ok |-> FALSE, error |-> ConflictException(UserAlreadyExists)]

\* the lookup of r completed (it did not fail) and gave this value
LookupReturned(r) == Len(calls[r]) >= 1 /\ calls[r][1].outcome = "returned"

Ports(r) == [i \in 1..Len(calls[r]) |-> calls[r][i].port]

OneRowPerEmail == \A x \in store : \A y \in store : x.email = y.email => x = y

\* the rows that the successful requests wrote
RowsOfSuccesses == {toPersistence(user[r]) : r \in {q \in Requests : Succeeded(q)}}

\* an earlier request, completed with success, registered the email r submits
EmailTakenBefore(r) ==
    \E o \in Requests : o < r /\ Succeeded(o) /\ EmailGet(email[o]) = dto[r].email

-----------------------------------------------------------------------------
(* Properties of the registration workflow, checked under Spec *)

\* C1: as long as no register call started while another was in flight, the
\* store holds at most one row per email; a call whose email an earlier call
\* stored, and whose lookup completed, failed with Conflict 'User already
\* exists' after its single port call, and the stored rows are exactly the
\* rows of the successful calls (a failed call added none).
C1_SequentialNoDuplicateEmail ==
    ~overlapped =>
        /\ OneRowPerEmail
        /\ store = RowsOfSuccesses
        /\ Cardinality(store) = Cardinality({r \in Requests : Succeeded(r)})
        /\ \A r \in Requests :
             (Responded(r) /\ LookupReturned(r) /\ EmailTakenBefore(r)) =>
                 /\ result[r] = ConflictResult
                 /\ response[r].status = CONFLICT
                 /\ Has(response[r].body.message, UserAlreadyExists)
                 /\ user[r] = NoUser
                 /\ Ports(r) = <<"findByEmail">>

C1_Witness ==
    /\ ~overlapped
    /\ \E r \in Requests :
         /\ Responded(r) /\ LookupReturned(r) /\ EmailTakenBefore(r)
         /\ result[r] = ConflictResult
         /\ Cardinality(store) = 1

\* C2: in every state, a call whose findByEmail returned an existing user has
\* failed with ConflictException 'User already exists' and has invoked neither
\* hash nor save.
C2_ConflictSkipsHashAndSave ==
    \A r \in Requests :
        (LookupReturned(r) /\ calls[r][1].value # NoUser) =>
            /\ result[r] = ConflictResult
            /\ \A i \in 1..Len(calls[r]) : calls[r][i].port \notin {"hash", "save"}

C2_Witness ==
    \E r \in Requests :
        /\ LookupReturned(r) /\ calls[r][1].value # NoUser
        /\ response[r].status = CONFLICT

\* C3: every successful call made exactly the port calls findByEmail, hash,
\* save, in this order; findByEmail got the submitted email, hash got the
\* submitted plaintext password, and save got a User with the submitted email
\* and the string hash returned.
C3_SuccessfulCallOrder ==
    \A r \in Requests :
        Succeeded(r) =>
            /\ Ports(r) = <<"findByEmail", "hash", "save">>
            /\ \A i \in 1..3 : calls[r][i].outcome = "returned"
            /\ EmailGet(calls[r][1].arg) = dto[r].email
            /\ calls[r][2].arg = dto[r].password
            /\ EmailGet(calls[r][3].arg.email) = dto[r].email
            /\ calls[r][3].arg.passwordHash = calls[r][2].value

C3_Witness == \E r \in Requests : Succeeded(r) /\ Len(calls[r]) = 3

\* two calls for one email that both found no user and whose ports all worked
BothPassedTheCheck(a, b) ==
    /\ a # b /\ Responded(a) /\ Responded(b)
    /\ email[a] # NoEmail /\ email[a] = email[b]
    /\ \A r \in {a, b} :
         /\ LookupReturned(r) /\ calls[r][1].value = NoUser
         /\ \A i \in 1..Len(calls[r]) : calls[r][i].outcome = "returned"

\* C4: without a unique index on email, two calls for the same email that both
\* passed the findByEmail check (and met no port failure) both return success
\* and leave two rows with that email under different ids.
C4_RaceLeavesTwoRows ==
    \A a \in Requests : \A b \in Requests :
        (~uniqueEmail /\ BothPassedTheCheck(a, b)) =>
            /\ Succeeded(a) /\ Succeeded(b)
            /\ toPersistence(user[a]) \in store
            /\ toPersistence(user[b]) \in store
            /\ user[a].id # user[b].id
            /\ response[a].status = CREATED /\ response[b].status = CREATED

C4_Witness ==
    /\ ~uniqueEmail
    /\ \E a \in Requests : \E b \in Requests :
         /\ BothPassedTheCheck(a, b)
         /\ \E x \in store : \E y \in store :
              /\ x.email = y.email /\ x.id # y.id
              /\ x.id = user[a].id.value /\ y.id = user[b].id.value

\* C5: with a unique index on email, under every interleaving the store holds
\* at most one row per email and at most one call per email returned success.
C5_UniqueIndexOneWinner ==
    uniqueEmail =>
        /\ OneRowPerEmail
        /\ \A a \in Requests : \A b \in Requests :
             (Succeeded(a) /\ Succeeded(b) /\ dto[a].email = dto[b].email) => a = b

C5_Witness ==
    /\ uniqueEmail /\ overlapped
    /\ \E a \in Requests : \E b \in Requests :
         /\ a # b /\ Responded(b) /\ dto[a].email = dto[b].email
         /\ Succeeded(a) /\ ~result[b].ok
         /\ Ports(b) = <<"findByEmail", "hash", "save">>
         /\ calls[b][1].value = NoUser

ResponseKeys ==
    {"id", "email", "firstName", "lastName", "status", "createdAt", "updatedAt"}

OtherHashes == {<<"pw1">>, <<"$2b$10$", "other">>}

\* C8: every 201 body has exactly the keys id, email, firstName, lastName,
\* status, createdAt, updatedAt (so no password or passwordHash key), and it
\* is the body any User differing only in passwordHash maps to.
C8_ResponseOmitsPassword ==
    \A r \in Requests :
        (Responded(r) /\ response[r].status = CREATED) =>
            /\ DOMAIN response[r].body = ResponseKeys
            /\ \A h \in OtherHashes :
                 toResponseDto([user[r] EXCEPT !.passwordHash = h]) = response[r].body
            /\ \A k \in DOMAIN response[r].body \ {"createdAt", "updatedAt", "status"} :
                 response[r].body[k] \notin {user[r].passwordHash, dto[r].password}

C8_Witness ==
    \E r \in Requests :
        /\ Responded(r) /\ response[r].status = CREATED
        /\ response[r].body.email = GoodEmail

\* C9: every stored row belongs to a call of register and its password column
\* holds the string hash returned to that call, which is not the submitted
\* plaintext; the plaintext was passed to hash and to no other port.
C9_OnlyTheHashIsStored ==
    /\ \A row \in store :
         \E r \in Requests :
             /\ user[r] # NoUser /\ user[r].id.value = row.id
             /\ Len(calls[r]) >= 2 /\ calls[r][2].port = "hash"
             /\ row.password = calls[r][2].value
             /\ row.password # dto[r].password
    /\ \A r \in Requests : \A i \in 1..Len(calls[r]) :
         CASE calls[r][i].port = "hash" -> calls[r][i].arg = dto[r].password
           [] calls[r][i].port = "findByEmail" ->
                 EmailGet(calls[r][i].arg) # dto[r].password
           [] calls[r][i].port = "save" ->
                 /\ calls[r][i].arg.passwordHash # dto[r].password
                 /\ toPersistence(calls[r][i].arg).password # dto[r].password

C9_Witness ==
    \E row \in store : \E r \in Requests :
        /\ user[r] # NoUser /\ user[r].id.value = row.id
        /\ row.password = BcryptHash(dto[r].password, genSalt(1))

-----------------------------------------------------------------------------
(* Properties of the filter, checked under SpecFilter *)

\* C6: every caught framework HTTP exception is answered with its own status.
C6_HttpExceptionKeepsItsStatus ==
    (sent # Pending /\ caught.http) => sent.status = caught.status

-----------------------------------------------------------------------------
(* Properties of the Email value object, checked under SpecEmail *)

Plain(c) == c # " " /\ c # "\n" /\ c # "\t" /\ c # "@"

\* one or more plain characters, '@', one or more, '.', one or more
EmailShape(s) ==
    \E i \in 1..Len(s) : \E j \in 1..Len(s) :
        /\ 1 < i /\ i + 1 < j /\ j < Len(s)
        /\ s[i] = "@" /\ s[j] = "."
        /\ \A k \in 1..Len(s) : k # i => Plain(s[k])

\* C10: new Email(s) succeeds exactly when s has the shape above; then get()
\* returns s unchanged, otherwise the error is 'Invalid email format'.
C10_EmailAcceptsExactlyTheShape ==
    emailOut # Pending =>
        /\ emailOut.ok <=> EmailShape(emailIn)
        /\ emailOut.ok => EmailGet(emailOut.value) = emailIn
        /\ ~emailOut.ok =>
              /\ emailOut.error.message = InvalidEmailFormat
              /\ emailOut.error.class = "Error"
        /\ emailIn \in {<<"a", "a">>, <<"@", "a", ".", "a">>, <<"a", "@">>,
                        <<"a", "@", ".", "a">>, <<>>,
                        <<"a", " ", "@", "a", ".", "a">>} => ~emailOut.ok

C10_Witness ==
    /\ emailOut # Pending /\ emailOut.ok
    /\ emailIn = <<"a", "@", ".", ".", "a">>

-----------------------------------------------------------------------------
(* Properties of the domain operations, checked under SpecDomain *)

Called(op) == domIn.op = op /\ domOut # Pending

\* the error a call threw, by its message
Threw(message) == ~domOut.ok /\ domOut.error = PlainError(message)

\* the string has a character that trim() keeps
NonBlank(s) == \E i \in 1..Len(s) : s[i] \notin {" ", "\t", "\n"}

\* the outcome the id check must have for the value v, where id is the
\* UserId held by the result
IdChecked(v, id) ==
    /\ v.type \in {"null", "undefined"} => Threw(IdCannotBeNull)
    /\ v.type = "number" => Threw(UserIdMustBeNonEmpty)
    /\ (v.type = "string" /\ ~NonBlank(v.str)) => Threw(UserIdMustBeNonEmpty)
    /\ (v.type = "string" /\ NonBlank(v.str)) =>
           domOut.ok /\ id = [value |-> v.str]

\* C11: UserId.create fails with 'ID cannot be null or undefined' for null and
\* undefined, with 'UserId must be a non-empty string' for a non-string, the
\* empty string and a whitespace-only string, and otherwise keeps the string
\* exactly as given; User.reconstitute treats its id the same way.
C11_UserIdCreateChecksAbsenceThenString ==
    /\ Called("UserId.create") =>
           IdChecked(domIn.value, IF domOut.ok THEN domOut.value ELSE NoId)
    /\ Called("User.reconstitute") =>
           IdChecked(domIn.id, IF domOut.ok THEN domOut.value.id ELSE NoId)

C11_Witness ==
    /\ Called("UserId.create")
    /\ domIn.value = JsString(<<" ", "a", " ">>)
    /\ domOut = Ok([value |-> <<" ", "a", " ">>])

-----------------------------------------------------------------------------
(* Further properties of the registration workflow, checked under Spec *)

\* the User that User.create returned to request r
Created(r) == user[r] # NoUser

\* C12: every User built by User.create has status ACTIVE, createdAt equal to
\* updatedAt, the first name, last name, email and password hash it was given
\* (a null name stays null), and an id that no other created User has.
C12_CreatedUserDefaults ==
    \A r \in Requests : Created(r) =>
        /\ user[r].status = ACTIVE
        /\ user[r].createdAt = user[r].updatedAt
        /\ user[r].firstName = dto[r].firstName
        /\ user[r].lastName = dto[r].lastName
        /\ user[r].email = email[r]
        /\ user[r].passwordHash = hashed[r]
        /\ \A o \in Requests \ {r} :
               Created(o) => user[o].id.value # user[r].id.value

C12_Witness ==
    \E r \in Requests : \E o \in Requests \ {r} :
        /\ Created(r) /\ Created(o)
        /\ user[r].firstName = Null /\ user[r].lastName # Null
        /\ user[o].firstName # Null /\ user[o].lastName = Null
        /\ user[r].id # user[o].id

-----------------------------------------------------------------------------
(* Properties of Entity, checked under SpecDomain *)

HasId(e) == e.id # NoId

\* C13: when both entities have an id, equals is true exactly when they have
\* the same class and their ids have equal raw values, whatever the other
\* fields; for a null argument it is false.
C13_EqualsIsSameClassAndSameId ==
    Called("equals") =>
        IF domIn.other = JsNull THEN domOut = Ok(FALSE)
        ELSE (HasId(domIn.this) /\ HasId(domIn.other)) =>
                 domOut = Ok(/\ domIn.this.class = domIn.other.class
                             /\ domIn.this.id.value = domIn.other.id.value)

C13_Witness ==
    /\ Called("equals")
    /\ domIn.other # JsNull
    /\ HasId(domIn.this)
    /\ domIn.this.class = domIn.other.class
    /\ domIn.this.id = domIn.other.id
    /\ domIn.this.name # domIn.other.name
    /\ domOut = Ok(TRUE)

\* C14: equals returns false, and raises nothing, whenever the id is absent
\* on either side: on this entity, or on the other entity of the same class
\* while this entity has an id.
C14_EqualsIsFalseWhenAnIdIsAbsent ==
    (Called("equals") /\ domIn.other # JsNull) =>
        /\ ~HasId(domIn.this) => domOut = Ok(FALSE)
        /\ (/\ HasId(domIn.this)
            /\ domIn.this.class = domIn.other.class
            /\ ~HasId(domIn.other)) => domOut = Ok(FALSE)

\* C15: isNew() is true exactly when the id is absent; getId() fails with
\* 'Entity ID is not set' exactly when the id is absent, and otherwise returns
\* the id.
C15_IsNewAndGetIdFollowTheId ==
    /\ Called("isNew") => domOut = Ok(~HasId(domIn.this))
    /\ Called("getId") =>
           IF HasId(domIn.this) THEN domOut = Ok(domIn.this.id)
           ELSE Threw(EntityIdNotSet)

C15_Witness ==
    /\ Called("getId")
    /\ ~HasId(domIn.this)
    /\ Threw(EntityIdNotSet)

-----------------------------------------------------------------------------
(* Properties of UserRepository.save, checked under SpecRepo *)

\* the save calls that returned
Returns(i) == saves[i].outcome.ok

RowsWithId(st, u) == {row \in st : row.id = u.id.value}

\* C16: a save that returns is an upsert keyed by the id: for an id not stored
\* it adds exactly one row, the row of the user; for a stored id it replaces
\* the fields of that row, adds none and touches no other row; saving the same
\* user again leaves the store as the first save left it.
C16_SaveIsUpsertById ==
    \A i \in 1..Len(saves) : Returns(i) =>
        LET s == saves[i]
            row == toPersistence(s.user)
        IN  /\ RowsWithId(s.after, s.user) = {row}
            /\ s.after \ {row} = s.before \ RowsWithId(s.before, s.user)
            /\ RowsWithId(s.before, s.user) = {} =>
                   Cardinality(s.after) = Cardinality(s.before) + 1
            /\ RowsWithId(s.before, s.user) # {} =>
                   Cardinality(s.after) = Cardinality(s.before)
            /\ (i > 1 /\ Returns(i - 1) /\ saves[i - 1].user = s.user) =>
                   s.after = saves[i - 1].after

C16_Witness ==
    /\ Len(saves) = 3
    /\ \A i \in 1..3 : Returns(i)
    /\ saves[1].user.id = saves[2].user.id
    /\ saves[1].user # saves[2].user
    /\ saves[2].user = saves[3].user
    /\ Cardinality(store) = 1
    /\ store = {toPersistence(saves[3].user)}

-----------------------------------------------------------------------------
(* Properties of the persistence mapper, checked under SpecDomain *)

\* C17: mapping a valid User to a row and back gives a User with the same id
\* value, email string, password hash, names, status and timestamps, equal to
\* the original under equals(); mapping a row with a valid email and a
\* non-blank id to a User and back gives the same row, field for field.
C17_MapperRoundTrips ==
    /\ Called("toDomain(toPersistence)") =>
           LET u == domIn.user IN
           /\ domOut.ok
           /\ domOut.value.id.value = u.id.value
           /\ EmailGet(domOut.value.email) = EmailGet(u.email)
           /\ domOut.value.passwordHash = u.passwordHash
           /\ domOut.value.firstName = u.firstName
           /\ domOut.value.lastName = u.lastName
           /\ domOut.value.status = u.status
           /\ domOut.value.createdAt = u.createdAt
           /\ domOut.value.updatedAt = u.updatedAt
           /\ EntityEquals(domOut.value, u) = Ok(TRUE)
           /\ EntityEquals(u, domOut.value) = Ok(TRUE)
    /\ (/\ Called("toPersistence(toDomain)")
        /\ EmailShape(domIn.row.email)
        /\ NonBlank(domIn.row.id)) => domOut = Ok(domIn.row)

C17_Witness ==
    /\ Called("toPersistence(toDomain)")
    /\ domIn.row.id = <<" ", "a">>
    /\ domIn.row.email = UpperEmail
    /\ domIn.row.firstName = Null /\ domIn.row.lastName # Null
    /\ domIn.row.status # ACTIVE
    /\ domIn.row.createdAt # domIn.row.updatedAt
    /\ domOut = Ok(domIn.row)

-----------------------------------------------------------------------------
(* Properties of the registration workflow, continued *)

\* request r was made with an email that does not have the email shape
InvalidEmailSubmitted(r) == dto[r] # NoDto /\ ~EmailShape(dto[r].email)

\* C18: a register call whose email does not match the pattern fails with
\* 'Invalid email format' and is answered 400 without any port call: no
\* findByEmail, hash or save is logged, no User is built, and the step that
\* rejects it leaves the store as it was.
C18_InvalidEmailUsesNoPort ==
    /\ [](\A r \in Requests : InvalidEmailSubmitted(r) =>
            /\ Responded(r)
            /\ result[r] = [ok |-> FALSE, error |-> PlainError(InvalidEmailFormat)]
            /\ calls[r] = <<>>
            /\ hashed[r] = <<>>
            /\ user[r] = NoUser
            /\ response[r].status = 400
            /\ response[r].body.statusCode = 400
            /\ response[r].body.message = InvalidEmailFormat
            /\ \A row \in store : row.email # dto[r].email)
    /\ [][\A r \in Requests :
            (pc[r] = "idle" /\ pc'[r] # "idle" /\ ~EmailShape(dto'[r].email))
                => store' = store]_vars

C18_Witness ==
    \E r \in Requests :
        /\ InvalidEmailSubmitted(r)
        /\ response[r].status = 400
        /\ calls[r] = <<>>
        /\ store # {}

\* the call of r ended because a port failed, not by a decision of register
PortFailed(r) ==
    Responded(r) /\ ~result[r].ok /\ result[r].error.message = ConnectionLost

\* C19: the email keeps its letter case everywhere: the Email object, the
\* User, the stored row and the response carry the submitted string; a
\* conflict is raised only when a row holds exactly the submitted string; and
\* in sequential use a well-formed email that no earlier successful call
\* submitted in exactly that spelling is registered.
C19_EmailCaseIsKept ==
    \A r \in Requests :
        /\ email[r] # NoEmail => EmailGet(email[r]) = dto[r].email
        /\ Created(r) => EmailGet(user[r].email) = dto[r].email
        /\ Succeeded(r) =>
               /\ response[r].body.email = dto[r].email
               /\ \E row \in store : /\ row.id = user[r].id.value
                                     /\ row.email = dto[r].email
        /\ (Responded(r) /\ result[r] = ConflictResult) =>
               \E row \in store : row.email = dto[r].email
        /\ (/\ ~overlapped /\ Responded(r) /\ ~PortFailed(r)
            /\ EmailShape(dto[r].email) /\ ~EmailTakenBefore(r)) => Succeeded(r)

C19_Witness ==
    /\ ~overlapped
    /\ Succeeded(1) /\ Succeeded(2)
    /\ dto[1].email = UpperEmail /\ dto[2].email = GoodEmail
    /\ Cardinality(store) = 2
    /\ {row.email : row \in store} = {UpperEmail, GoodEmail}

\* the save of r was rejected by the store for a duplicate email
SaveRejectedAsDuplicate(r) ==
    /\ Len(calls[r]) = 3
    /\ calls[r][3].port = "save" /\ calls[r][3].outcome = "failed"
    /\ calls[r][3].value = PlainError(UniqueConstraintFailed)

\* C20: when save fails because the store rejects a duplicate email, register
\* fails with that very error, the request is answered 500 (not 409) with the
\* error's message, the hash had already been computed, the row of the
\* request is not stored and the row of the call that won is.
C20_DuplicateOnSaveAnswers500 ==
    \A r \in Requests : SaveRejectedAsDuplicate(r) =>
        /\ Responded(r)
        /\ result[r] = [ok |-> FALSE, error |-> calls[r][3].value]
        /\ response[r].status = 500
        /\ response[r].status # 409
        /\ response[r].body.statusCode = 500
        /\ response[r].body.message = UniqueConstraintFailed
        /\ calls[r][2].port = "hash" /\ calls[r][2].outcome = "returned"
        /\ hashed[r] = calls[r][2].value
        /\ \A row \in store : row.id # user[r].id.value
        /\ \E o \in Requests \ {r} :
               /\ Succeeded(o) /\ dto[o].email = dto[r].email
               /\ {row \in store : row.email = dto[r].email} = {toPersistence(user[o])}

C20_Witness ==
    /\ overlapped
    /\ \E r \in Requests :
         /\ SaveRejectedAsDuplicate(r)
         /\ response[r].status = 500
         /\ Cardinality(store) = 1

-----------------------------------------------------------------------------
(* Further properties of the filter, checked under SpecFilter *)

\* what the response payload of a BadRequestException offers as a message:
\* the payload itself when it is a string, its message field as one string
\* when it has one, and nothing otherwise
NoPayloadMessage == <<"<undefined>">>

PayloadMessage(payload) ==
    CASE payload.kind = "string" -> payload.value
      [] payload.kind = "object" -> payload.message
      [] payload.kind = "list" -> JoinComma(payload.items)
      [] OTHER -> NoPayloadMessage

Answered == sent # Pending

\* C21 as stated: a BadRequestException is answered with its own status
\* whatever its message contains, and the body message always comes from the
\* response payload, never from the error's message.
C21_BadRequestMessageIsAlwaysThePayload ==
    (Answered /\ IsBadRequest(caught)) =>
        /\ sent.status = caught.status
        /\ sent.body.message = PayloadMessage(caught.payload)

\* C21, amended: a BadRequestException is answered with its own status
\* whatever its message contains (400, not 409, when the message contains
\* 'User already exists'); the body message is the payload when that is a
\* string, the payload's message field when it has one, and the error's own
\* message when the payload is an object with no message field.
C21_BadRequestKeepsStatusAndPayloadMessage ==
    (Answered /\ IsBadRequest(caught)) =>
        /\ sent.status = caught.status
        /\ sent.status = 400
        /\ sent.body.message =
               IF caught.payload.kind = "bare" THEN caught.message
               ELSE PayloadMessage(caught.payload)

C21_Witness ==
    /\ Answered /\ IsBadRequest(caught)
    /\ Has(caught.message, UserAlreadyExists)
    /\ caught.payload = [kind |-> "object", message |-> <<"Bad", "Request">>]
    /\ sent.status = 400
    /\ sent.body.message = <<"Bad", "Request">>

\* the one string the body must carry for the caught error
ExpectedMessage(exception) ==
    IF ~IsBadRequest(exception) \/ exception.payload.kind = "bare"
    THEN exception.message
    ELSE PayloadMessage(exception.payload)

\* C22: every filter invocation emits one response and never a second one;
\* its body repeats the status that was set and carries a single string as
\* message: the items joined by ',' when the payload's message is a list of
\* strings, the error's own message when the payload has no message field.
C22_OneResponseWithStringMessage ==
    /\ [](Answered =>
            /\ sent.body.statusCode = sent.status
            /\ sent.body.message = ExpectedMessage(caught)
            /\ (IsBadRequest(caught) /\ caught.payload.kind = "list") =>
                   sent.body.message = JoinComma(caught.payload.items))
    /\ [][Answered => sent' = sent]_vars

C22_Witness ==
    /\ Answered /\ IsBadRequest(caught)
    /\ caught.payload = [kind |-> "list", items |-> <<<<"Bad", "Request">>, <<"x">>>>]
    /\ sent.body.message = <<"Bad", "Request", ",", "x">>
    /\ sent.body.statusCode = 400

-----------------------------------------------------------------------------
(* Properties of the registration workflow: failures, results, responses *)

PortOrder == <<"findByEmail", "hash", "save">>

\* the i-th port call of r failed
CallFailed(r, i) == i \in 1..Len(calls[r]) /\ calls[r][i].outcome = "failed"

\* C23: within one register call the ports are invoked in the order
\* findByEmail, hash, save, each at most once; a call that failed is the last
\* one made (a failed findByEmail prevents hash and save, a failed hash
\* prevents save), the error it threw is the error register fails with, and
\* the step in which it fails leaves the store unchanged.
C23_NoRetryFailurePropagates ==
    /\ [](\A r \in Requests :
            /\ Len(calls[r]) <= 3
            /\ Ports(r) = SubSeq(PortOrder, 1, Len(calls[r]))
            /\ \A i \in 1..Len(calls[r]) : CallFailed(r, i) =>
                   /\ i = Len(calls[r])
                   /\ Responded(r)
                   /\ result[r] = [ok |-> FALSE, error |-> calls[r][i].value]
                   /\ response[r].body.message = calls[r][i].value.message
                   /\ user[r] # NoUser =>
                          \A row \in store : row.id # user[r].id.value)
    /\ [][\A r \in Requests :
            (\E i \in 1..Len(calls'[r]) :
                 calls'[r][i].outcome = "failed" /\ calls[r][i].outcome # "failed")
            => store' = store]_vars

C23_Witness ==
    \E r \in Requests :
        /\ Len(calls[r]) = 2 /\ CallFailed(r, 2)
        /\ calls[r][2].port = "hash"
        /\ result[r] = [ok |-> FALSE, error |-> PlainError(ConnectionLost)]
        /\ store # {}

\* C24: a successful register resolves with the very User that User.create
\* built and that was handed to save, not with the User that save returned
\* (another object, made by User.reconstitute from the stored row); the 201
\* body is mapped from that pre-save User.
C24_RegisterReturnsThePreSaveUser ==
    \A r \in Requests : Succeeded(r) =>
        /\ Len(calls[r]) = 3
        /\ calls[r][3].port = "save" /\ calls[r][3].outcome = "returned"
        /\ result[r].value = user[r]
        /\ result[r].value = calls[r][3].arg
        /\ result[r].value.instance = "created"
        /\ result[r].value # calls[r][3].value
        /\ response[r].body = toResponseDto(user[r])

C24_Witness ==
    \E r \in Requests :
        /\ Succeeded(r)
        /\ calls[r][3].value.instance = "reconstituted"
        /\ calls[r][3].value # calls[r][3].arg
        /\ result[r].value = calls[r][3].arg
        /\ response[r].status = 201

\* request r was answered 201
Answered201(r) == response[r] # Pending /\ response[r].status = CREATED

\* C25: whenever a request has been answered 201, its save had returned
\* before, and the store holds a row with the id, email, first name, last name
\* and status of the response body.
C25_Created201OnlyAfterSave ==
    \A r \in Requests : Answered201(r) =>
        /\ Len(calls[r]) = 3
        /\ calls[r][3].port = "save" /\ calls[r][3].outcome = "returned"
        /\ \E row \in store :
               /\ row.id = response[r].body.id
               /\ row.email = response[r].body.email
               /\ row.firstName = response[r].body.firstName
               /\ row.lastName = response[r].body.lastName
               /\ row.status = response[r].body.status

C25_Witness ==
    \E r \in Requests :
        /\ Answered201(r)
        /\ response[r].body.firstName # Null /\ response[r].body.lastName = Null
        /\ \E row \in store : row.id = response[r].body.id

-----------------------------------------------------------------------------
(* Termination of requests, checked under SpecLive *)

Arrived(r) == pc[r] # "idle"

\* r has its one response: 201 with the user body, or an error body
HasResponse(r) ==
    /\ response[r] # Pending
    /\ \/ result[r].ok /\ response[r] = [status |-> CREATED,
                                         body |-> toResponseDto(result[r].value)]
       \/ ~result[r].ok /\ response[r].body.message = result[r].error.message

\* C26: provided every port call eventually completes or fails, every request
\* that arrived eventually has a response, 201 with the user body or an error
\* body from the filter, and a response once sent is never replaced.  Arrival
\* and response are both permanent, so "each arrived request is eventually
\* answered" is stated as: again and again, all arrived requests are answered.
C26_EveryRequestIsAnsweredOnce ==
    /\ []<>(\A r \in Requests : Arrived(r) => HasResponse(r))
    /\ [][\A r \in Requests :
            response[r] # Pending => response'[r] = response[r]]_vars

C26_Witness ==
    /\ \A r \in Requests : Arrived(r) /\ HasResponse(r)
    /\ overlapped
    /\ \E r \in Requests : result[r].ok
    /\ \E r \in Requests : ~result[r].ok

-----------------------------------------------------------------------------
(* Invariants of users and rows, checked under Spec *)

\* the User objects request r holds: the one it created, and those the
\* repository reconstituted for it in findByEmail and save
UsersOf(r) ==
    {u \in {user[r]} : u # NoUser}
    \cup {calls[r][i].value : i \in {j \in 1..Len(calls[r]) :
              /\ calls[r][j].port \in {"findByEmail", "save"}
              /\ calls[r][j].outcome = "returned"
              /\ calls[r][j].value # NoUser}}

Stored(u) == \E row \in store : row.id = u.id.value

C28_StoredRowsAreWellFormed ==
    \A row \in store :
        /\ row.status = ACTIVE
        /\ row.createdAt = row.updatedAt
        /\ NonBlank(row.id)
        /\ \A other \in store : other.id = row.id => other = row
        /\ emailRegexTest(row.email)

C28_Witness ==
    /\ Cardinality(store) = NumRequests
    /\ \A r \in Requests : Succeeded(r) /\ Stored(user[r])
    /\ \E a \in store : \E b \in store : a.id # b.id /\ a.createdAt # b.createdAt

\* the step in which the register call of r ends, with or without a user
RegisterEnds(r) == pc[r] # "responded" /\ pc'[r] = "responded"

\* C29: register never changes or removes a stored row: its save finds no row
\* with the new id and creates one, so a call that succeeds adds exactly one
\* row, a call that fails adds none, and the rows present before stay as
\* they were.
C29_RegisterOnlyAddsRows ==
    /\ [](Cardinality(store) = Cardinality({r \in Requests : Succeeded(r)}))
    /\ [][/\ store \subseteq store'
          /\ (\A r \in Requests : ~RegisterEnds(r)) => store' = store
          /\ \A r \in Requests :
                /\ pc[r] = "save" =>
                       UpsertTarget(store, toPersistence(user[r])) = {}
                /\ RegisterEnds(r) /\ result'[r].ok =>
                       store' = store \cup {toPersistence(user[r])}
                       /\ toPersistence(user[r]) \notin store
                /\ RegisterEnds(r) /\ ~result'[r].ok => store' = store]_vars

C29_Witness ==
    \E r \in Requests : \E o \in Requests :
        /\ Succeeded(r) /\ Succeeded(o)
        /\ user[r].createdAt < user[o].createdAt
        /\ toPersistence(user[r]) \in store
        /\ toPersistence(user[o]) \in store
        /\ user[r].email = user[o].email

-----------------------------------------------------------------------------
(* Concurrent registrations of different emails, checked under Spec *)

\* the requests that have arrived so far submitted well-formed emails that
\* differ from one another, and no port has failed them
DifferentValidEmails ==
    \A r \in Requests : Arrived(r) =>
        /\ EmailShape(dto[r].email)
        /\ ~PortFailed(r)
        /\ \A o \in Requests \ {r} : Arrived(o) => dto[o].email # dto[r].email

RowsOf(r) == {row \in store : row.email = dto[r].email}

\* C30: register calls for pairwise different valid emails, none stored before,
\* all succeed however their awaits interleave (ports that do not fail), and
\* the store ends with exactly one row per call.
C30_DifferentEmailsAllSucceed ==
    DifferentValidEmails =>
        /\ \A r \in Requests : Responded(r) =>
              /\ Succeeded(r)
              /\ response[r].status = CREATED
              /\ RowsOf(r) = {toPersistence(user[r])}
        /\ \A r \in Requests : Arrived(r) /\ ~Responded(r) => RowsOf(r) = {}
        /\ Cardinality(store) =
               Cardinality({r \in Requests : Responded(r)})

C30_Witness ==
    /\ DifferentValidEmails
    /\ overlapped
    /\ uniqueEmail
    /\ \E r \in Requests : \E o \in Requests \ {r} :
          /\ Responded(r) /\ Responded(o)
          /\ RowsOf(r) # RowsOf(o)
          /\ Cardinality(store) >= 2

====
